---- MODULE Spec2Model ----
(***************************************************************************)
(* Model of backend/server.py: the PTI (periodic technical inspection)     *)
(* record service.  The store (db.users, db.inspections) is shared; every  *)
(* HTTP request is a coroutine whose atomic steps are its store calls      *)
(* (each `await db...`), together with the local code that follows the     *)
(* call up to the next store call or the response.                         *)
(***************************************************************************)
EXTENDS Integers, Sequences, FiniteSets, TLC

VARIABLES
    users,        \* db.users: the documents, in insertion order
    inspections,  \* db.inspections: the documents, in insertion order
    nextId,       \* source of fresh uuid4 values
    now,          \* the clock: [day |-> proleptic ordinal, sec |-> second of the day]
    tokens,       \* the access tokens issued so far (held by the callers)
    started,      \* number of requests received so far
    req           \* the requests in flight or answered, one per connection

vars == <<users, inspections, nextId, now, tokens, started, req>>

----------------------------------------------------------------------------
(* Bounds of the model. *)

MaxInFlight == 2      \* connections served concurrently

Slots == 1..MaxInFlight

----------------------------------------------------------------------------
(* Values.  Optional[T] is a sequence of length <= 1. *)

None == <<>>
Some(x) == <<x>>

SECRET_KEY == "your-secret-key-change-in-production"
ACCESS_TOKEN_EXPIRE_DAYS == 30
INSPECTOR_CREATION_PASSWORD == "Chiru_041217_"

SecondsPerDay == 86400

Min(S) == CHOOSE x \in S : \A y \in S : x <= y

\* find_one: the first of the documents that match the filter, in store order.
FindOne(matching) == IF matching = <<>> THEN None ELSE Some(matching[1])

\* find(...).to_list(n): the matching documents in store order, at most n.
ToList(matching, n) ==
    IF Len(matching) <= n THEN matching ELSE SubSeq(matching, 1, n)

ByEmail(coll, email) == SelectSeq(coll, LAMBDA d : d.email = email)
ById(coll, id) == SelectSeq(coll, LAMBDA d : d.id = id)

\* The position of the first document with the id, 0 when there is none.
FirstIndex(coll, id) ==
    IF \E i \in 1..Len(coll) : coll[i].id = id
    THEN Min({i \in 1..Len(coll) : coll[i].id = id})
    ELSE 0

----------------------------------------------------------------------------
(* Credentials and tokens. *)

\* bcrypt.hashpw(password, salt): a digest determined by password and salt.
hash_password(password, salt) == [salt |-> salt, digest |-> <<salt, password>>]

\* bcrypt.checkpw: rehash the plain password with the stored salt and compare.
verify_password(plain_password, hashed_password) ==
    hash_password(plain_password, hashed_password.salt) = hashed_password

\* timedelta(days = n) added to an instant.
AddDays(t, n) == [day |-> t.day + n, sec |-> t.sec]

Before(t1, t2) == t1.day < t2.day \/ (t1.day = t2.day /\ t1.sec < t2.sec)

\* jwt.encode({"sub": ..., "exp": now + 30 days}, SECRET_KEY)
create_access_token(sub, t) ==
    [sub |-> Some(sub), exp |-> AddDays(t, ACCESS_TOKEN_EXPIRE_DAYS), key |-> SECRET_KEY]

----------------------------------------------------------------------------
(* Requests and responses. *)

Idle == [tag |-> FALSE, op |-> "none", pc |-> "idle", data |-> None, cur |-> None,
         resp |-> [status |-> 0, detail |-> "", body |-> None]]

\* A request is received on the first connection that serves none.
Free(r) ==
    /\ req[r].pc \in {"idle", "done"}
    /\ \A r2 \in Slots : r2 < r => req[r2].pc \notin {"idle", "done"}

Error(code, msg) == [status |-> code, detail |-> msg, body |-> None]
Ok(body) == [status |-> 200, detail |-> "", body |-> Some(body)]

\* A request as it arrives on connection r (the tag of the connection flips
\* with every request it receives), and as it ends with the response rsp.
Arrive(r, op, data) == [Idle EXCEPT !.tag = ~req[r].tag, !.op = op, !.data = data]
Done(q, rsp) == [q EXCEPT !.pc = "done", !.resp = rsp]

UserResponse(u) ==
    [id |-> u.id, name |-> u.name, phone |-> u.phone, email |-> u.email,
     role |-> u.role, inspector_id |-> u.inspector_id, cars |-> u.cars]

----------------------------------------------------------------------------
(* POST /auth/register *)

\* The checks of register between the lookup and the insert: the error the
\* request ends with, or None when the user is to be created.
RegisterBadRoleFirst(existing_user, user_data) ==
    IF user_data.role \notin {"client", "inspector"}
    THEN Some(Error(400, "Rol invalid"))
    ELSE IF existing_user # None
    THEN Some(Error(400, "Email-ul este deja inregistrat"))
    ELSE None

RegisterNoCreationPassword(existing_user, user_data) ==
    IF existing_user # None
    THEN Some(Error(400, "Email-ul este deja inregistrat"))
    ELSE IF user_data.role \notin {"client", "inspector"}
    THEN Some(Error(400, "Rol invalid"))
    ELSE IF user_data.role = "inspector" /\ user_data.inspector_id \in {None, Some("")}
    THEN Some(Error(400, "ID-ul de inspector este necesar"))
    ELSE None

RegisterChecks(existing_user, user_data) ==
    IF existing_user # None
    THEN Some(Error(400, "Email-ul este deja inregistrat"))
    ELSE IF user_data.role \notin {"client", "inspector"}
    THEN Some(Error(400, "Rol invalid"))
    ELSE IF user_data.role = "inspector" /\ user_data.inspector_id \in {None, Some("")}
    THEN Some(Error(400, "ID-ul de inspector este necesar"))
    ELSE IF user_data.role = "inspector"
            /\ user_data.inspector_creation_password # Some(INSPECTOR_CREATION_PASSWORD)
    THEN Some(Error(403, "Parola de creare inspector incorecta"))
    ELSE None

\* Lines 139-152: the request arrives, the email is looked up and the request
\* is validated.
register_find(r, user_data) ==
    /\ Free(r)
    /\ started' = started + 1
    /\ LET existing_user == FindOne(ByEmail(users, user_data.email))
           failure == RegisterChecks(existing_user, user_data)
           q == Arrive(r, "register", user_data)
       IN  req' = [req EXCEPT ![r] =
                     IF failure # None
                     THEN Done(q, failure[1])
                     ELSE [q EXCEPT !.pc = "register_insert"]]
    /\ UNCHANGED <<users, inspections, nextId, now, tokens>>

\* The document register builds (lines 155-170).
NewUserWithoutInspectorId(user_id, user_data, salt, t) ==
    [id |-> user_id,
     name |-> user_data.name,
     phone |-> user_data.phone,
     email |-> user_data.email,
     role |-> user_data.role,
     password |-> hash_password(user_data.password, salt),
     cars |-> <<>>,
     created_at |-> t,
     inspector_id |-> None]

NewUser(user_id, user_data, salt, t) ==
    [id |-> user_id,
     name |-> user_data.name,
     phone |-> user_data.phone,
     email |-> user_data.email,
     role |-> user_data.role,
     password |-> hash_password(user_data.password, salt),
     cars |-> <<>>,
     created_at |-> t,
     inspector_id |-> IF user_data.role = "inspector"
                      THEN user_data.inspector_id ELSE None]

\* Lines 155-192: the user is inserted and the token issued.
register_insert(r, salt) ==
    /\ req[r].pc = "register_insert"
    /\ LET user_data == req[r].data
           user_id == nextId
           user_dict == NewUser(user_id, user_data, salt, now)
           access_token == create_access_token(user_id, now)
       IN  /\ users' = Append(users, user_dict)
           /\ nextId' = nextId + 1
           /\ tokens' = tokens \cup {access_token}
           /\ req' = [req EXCEPT ![r] = Done(req[r],
                        Ok([access_token |-> access_token,
                            token_type |-> "bearer",
                            user |-> UserResponse(user_dict)]))]
    /\ UNCHANGED <<inspections, now, started>>

----------------------------------------------------------------------------
(* The bearer token of a request is resolved to a stored user. *)

\* Lines 118-133.  jwt.decode checks the signature, then the expiry.
get_current_user_no_expiry(token) ==
    IF token.key # SECRET_KEY \/ token.sub = None
    THEN [user |-> None, failure |-> Some(Error(401, "Token invalid"))]
    ELSE LET user == FindOne(ById(users, token.sub[1]))
         IN  IF user = None
             THEN [user |-> None, failure |-> Some(Error(401, "Utilizator negasit"))]
             ELSE [user |-> user, failure |-> None]

get_current_user(token) ==
    IF token.key # SECRET_KEY
    THEN [user |-> None, failure |-> Some(Error(401, "Token invalid"))]
    ELSE IF ~Before(now, token.exp)
    THEN [user |-> None, failure |-> Some(Error(401, "Token expirat"))]
    ELSE IF token.sub = None
    THEN [user |-> None, failure |-> Some(Error(401, "Token invalid"))]
    ELSE LET user == FindOne(ById(users, token.sub[1]))
         IN  IF user = None
             THEN [user |-> None, failure |-> Some(Error(401, "Utilizator negasit"))]
             ELSE [user |-> user, failure |-> None]

\* The first step of every authenticated handler: the request arrives on
\* connection r, its token is resolved and the handler runs up to its first
\* store call, which leaves the request as q.
Receive(r, q) ==
    /\ Free(r)
    /\ started' = started + 1
    /\ req' = [req EXCEPT ![r] = q]
    /\ UNCHANGED <<users, inspections, nextId, now, tokens>>

\* The request q with the resolved user, for the handler to run on.
WithUser(q, auth) == [q EXCEPT !.cur = auth.user]

Range(s) == {s[i] : i \in 1..Len(s)}

----------------------------------------------------------------------------
(* POST /auth/login and GET /auth/me *)

\* Lines 195-219.
login_user_not_found(r, login_data) ==
    /\ Free(r)
    /\ started' = started + 1
    /\ LET user == FindOne(ByEmail(users, login_data.email))
           q == Arrive(r, "login", login_data)
           access_token == create_access_token(user[1].id, now)
       IN  /\ req' = [req EXCEPT ![r] =
                  IF user = None
                  THEN Done(q, Error(404, "Utilizator negasit"))
                  ELSE IF ~verify_password(login_data.password, user[1].password)
                  THEN Done(q, Error(401, "Email sau parola incorecta"))
                  ELSE Done(q, Ok([access_token |-> access_token,
                                   token_type |-> "bearer",
                                   user |-> UserResponse(user[1])]))]
           /\ tokens' = IF user # None
                           /\ verify_password(login_data.password, user[1].password)
                        THEN tokens \cup {access_token} ELSE tokens
    /\ UNCHANGED <<users, inspections, nextId, now>>

login(r, login_data) ==
    /\ Free(r)
    /\ started' = started + 1
    /\ LET user == FindOne(ByEmail(users, login_data.email))
           q == Arrive(r, "login", login_data)
           access_token == create_access_token(user[1].id, now)
           granted == user # None
                      /\ verify_password(login_data.password, user[1].password)
       IN  /\ req' = [req EXCEPT ![r] =
                  IF ~granted
                  THEN Done(q, Error(401, "Email sau parola incorecta"))
                  ELSE Done(q, Ok([access_token |-> access_token,
                                   token_type |-> "bearer",
                                   user |-> UserResponse(user[1])]))]
           /\ tokens' = IF granted THEN tokens \cup {access_token} ELSE tokens
    /\ UNCHANGED <<users, inspections, nextId, now>>

\* Lines 222-231.
get_me(r, token) ==
    LET q == Arrive(r, "get_me", None)
        auth == get_current_user(token)
    IN  Receive(r, IF auth.failure # None THEN Done(q, auth.failure[1])
                   ELSE Done(WithUser(q, auth), Ok(UserResponse(auth.user[1]))))

----------------------------------------------------------------------------
(* POST /users/add-car and DELETE /users/remove-car/{license_plate} *)

\* update_one(filter, {"$set": fields}): the first matching document, if any,
\* gets the fields.
SetFields(doc, fields) ==
    [f \in DOMAIN doc \cup DOMAIN fields |->
        IF f \in DOMAIN fields THEN fields[f] ELSE doc[f]]

\* Every document gets the fields.
UpdateMany(coll, id, fields) ==
    [i \in 1..Len(coll) |-> SetFields(coll[i], fields)]

UpdateOne(coll, id, fields) ==
    LET i == FirstIndex(coll, id)
    IN  IF i = 0 THEN coll
        ELSE [coll EXCEPT ![i] = SetFields(coll[i], fields)]

\* list.remove(x): the first occurrence of x is taken out.
ListRemove(s, x) ==
    LET i == Min({j \in 1..Len(s) : s[j] = x})
    IN  SubSeq(s, 1, i - 1) \o SubSeq(s, i + 1, Len(s))

\* Lines 236-243: add_car up to its store call.
AddCarHandlerNoDuplicateCheck(q, current_user) ==
    LET cars == current_user.cars
        license_plate == q.data.license_plate
    IN  IF current_user.role # "client"
        THEN Done(q, Error(403, "Doar clientii pot adauga masini"))
        ELSE [q EXCEPT !.pc = "add_car_update",
                       !.data = [license_plate |-> license_plate,
                                 cars |-> Append(cars, license_plate)]]

\* A plate that is in the list of any user is refused.
AddCarHandlerExclusive(q, current_user) ==
    LET cars == current_user.cars
        license_plate == q.data.license_plate
    IN  IF current_user.role # "client"
        THEN Done(q, Error(403, "Doar clientii pot adauga masini"))
        ELSE IF \E i \in 1..Len(users) : license_plate \in Range(users[i].cars)
        THEN Done(q, Error(400, "Masina este deja adaugata"))
        ELSE [q EXCEPT !.pc = "add_car_update",
                       !.data = [license_plate |-> license_plate,
                                 cars |-> Append(cars, license_plate)]]

\* The role of the caller is not tested.
AddCarHandlerAnyRole(q, current_user) ==
    LET cars == current_user.cars
        license_plate == q.data.license_plate
    IN  IF license_plate \in Range(cars)
        THEN Done(q, Error(400, "Masina este deja adaugata"))
        ELSE [q EXCEPT !.pc = "add_car_update",
                       !.data = [license_plate |-> license_plate,
                                 cars |-> Append(cars, license_plate)]]

AddCarHandler(q, current_user) ==
    LET cars == current_user.cars
        license_plate == q.data.license_plate
    IN  IF current_user.role # "client"
        THEN Done(q, Error(403, "Doar clientii pot adauga masini"))
        ELSE IF license_plate \in Range(cars)
        THEN Done(q, Error(400, "Masina este deja adaugata"))
        ELSE [q EXCEPT !.pc = "add_car_update",
                       !.data = [license_plate |-> license_plate,
                                 cars |-> Append(cars, license_plate)]]

add_car(r, token, car_data) ==
    LET q == Arrive(r, "add_car", car_data)
        auth == get_current_user(token)
    IN  Receive(r, IF auth.failure # None THEN Done(q, auth.failure[1])
                   ELSE AddCarHandler(WithUser(q, auth), auth.user[1]))

\* Lines 253-260: remove_car up to its store call.
RemoveCarHandlerIdempotent(q, current_user) ==
    LET cars == current_user.cars
        license_plate == q.data.license_plate
    IN  IF current_user.role # "client"
        THEN Done(q, Error(403, "Doar clientii pot sterge masini"))
        ELSE [q EXCEPT !.pc = "remove_car_update",
                       !.data = [license_plate |-> license_plate,
                                 cars |-> SelectSeq(cars, LAMBDA p : p # license_plate)]]

RemoveCarHandler(q, current_user) ==
    LET cars == current_user.cars
        license_plate == q.data.license_plate
    IN  IF current_user.role # "client"
        THEN Done(q, Error(403, "Doar clientii pot sterge masini"))
        ELSE IF license_plate \notin Range(cars)
        THEN Done(q, Error(404, "Masina negasita"))
        ELSE [q EXCEPT !.pc = "remove_car_update",
                       !.data = [license_plate |-> license_plate,
                                 cars |-> ListRemove(cars, license_plate)]]

remove_car(r, token, license_plate) ==
    LET q == Arrive(r, "remove_car", [license_plate |-> license_plate])
        auth == get_current_user(token)
    IN  Receive(r, IF auth.failure # None THEN Done(q, auth.failure[1])
                   ELSE RemoveCarHandler(WithUser(q, auth), auth.user[1]))

\* Lines 244-249 and 261-266: the whole list is written back.
cars_update_in_place(r) ==
    /\ req[r].pc \in {"add_car_update", "remove_car_update"}
    /\ LET current_user == req[r].cur[1]
           license_plate == req[r].data.license_plate
           stored == FindOne(ById(users, current_user.id))[1].cars
           cars == IF req[r].op = "add_car"
                   THEN (IF license_plate \in Range(stored) THEN stored
                         ELSE Append(stored, license_plate))
                   ELSE SelectSeq(stored, LAMBDA p : p # license_plate)
       IN  /\ users' = UpdateOne(users, current_user.id, [cars |-> cars])
           /\ req' = [req EXCEPT ![r] = Done(req[r],
                        Ok([message |-> IF req[r].op = "add_car"
                                        THEN "Masina adaugata cu succes"
                                        ELSE "Masina stearsa cu succes",
                            cars |-> cars]))]
    /\ UNCHANGED <<inspections, nextId, now, tokens, started>>

cars_update(r) ==
    /\ req[r].pc \in {"add_car_update", "remove_car_update"}
    /\ LET current_user == req[r].cur[1]
           cars == req[r].data.cars
       IN  /\ users' = UpdateOne(users, current_user.id, [cars |-> cars])
           /\ req' = [req EXCEPT ![r] = Done(req[r],
                        Ok([message |-> IF req[r].op = "add_car"
                                        THEN "Masina adaugata cu succes"
                                        ELSE "Masina stearsa cu succes",
                            cars |-> cars]))]
    /\ UNCHANGED <<inspections, nextId, now, tokens, started>>

----------------------------------------------------------------------------
(* The inspection routes. *)

ListCap == 1000     \* to_list(1000)

\* InspectionResponse(**insp): the nine declared fields of the document.
InspectionResponse(insp) ==
    [id |-> insp.id,
     car_license_plate |-> insp.car_license_plate,
     owner_phone |-> insp.owner_phone,
     inspection_date |-> insp.inspection_date,
     expiry_date |-> insp.expiry_date,
     inspector_name |-> insp.inspector_name,
     inspector_phone |-> insp.inspector_phone,
     car_kilometers |-> insp.car_kilometers,
     created_at |-> insp.created_at]

Responses(docs) == [i \in 1..Len(docs) |-> InspectionResponse(docs[i])]

\* The role gate of the inspector-only routes (lines 271, 325, 344).
InspectorOnlyOpen(q, current_user, next_pc, msg) ==
    [q EXCEPT !.pc = next_pc]

InspectorOnly(q, current_user, next_pc, msg) ==
    IF current_user.role # "inspector"
    THEN Done(q, Error(403, msg))
    ELSE [q EXCEPT !.pc = next_pc]

\* POST /inspections, lines 270-289.
create_inspection(r, token, inspection_data) ==
    LET q == Arrive(r, "create_inspection", inspection_data)
        auth == get_current_user(token)
    IN  Receive(r, IF auth.failure # None THEN Done(q, auth.failure[1])
                   ELSE InspectorOnly(WithUser(q, auth), auth.user[1], "create_insert",
                                      "Doar inspectorii pot crea inspectii"))

\* The document create_inspection builds (lines 275-286).
NewInspectionWithoutKilometers(inspection_id, inspection_data, t) ==
    [id |-> inspection_id,
     car_license_plate |-> inspection_data.car_license_plate,
     owner_phone |-> inspection_data.owner_phone,
     inspection_date |-> inspection_data.inspection_date,
     expiry_date |-> inspection_data.expiry_date,
     inspector_name |-> inspection_data.inspector_name,
     inspector_phone |-> inspection_data.inspector_phone,
     car_kilometers |-> 0,
     created_at |-> t]

NewInspection(inspection_id, inspection_data, t) ==
    [id |-> inspection_id,
     car_license_plate |-> inspection_data.car_license_plate,
     owner_phone |-> inspection_data.owner_phone,
     inspection_date |-> inspection_data.inspection_date,
     expiry_date |-> inspection_data.expiry_date,
     inspector_name |-> inspection_data.inspector_name,
     inspector_phone |-> inspection_data.inspector_phone,
     car_kilometers |-> inspection_data.car_kilometers,
     created_at |-> t]

create_insert(r) ==
    /\ req[r].pc = "create_insert"
    /\ LET inspection_dict == NewInspection(nextId, req[r].data, now)
       IN  /\ inspections' = Append(inspections, inspection_dict)
           /\ nextId' = nextId + 1
           /\ req' = [req EXCEPT ![r] =
                        Done(req[r], Ok(InspectionResponse(inspection_dict)))]
    /\ UNCHANGED <<users, now, tokens, started>>

\* The documents a user sees in get_inspections and get_expiring_inspections
\* (lines 293-304 and 358-367).
VisibleToAll(current_user, coll) == ToList(coll, ListCap)

Visible(current_user, coll) ==
    IF current_user.role = "client"
    THEN ToList(SelectSeq(coll,
                    LAMBDA d : d.car_license_plate \in Range(current_user.cars)),
                ListCap)
    ELSE ToList(coll, ListCap)

\* A client without cars is answered without a store call (lines 296-297,
\* 360-361).
ListHandler(q, current_user, next_pc) ==
    IF current_user.role = "client" /\ current_user.cars = <<>>
    THEN Done(q, Ok(<<>>))
    ELSE [q EXCEPT !.pc = next_pc]

\* GET /inspections, lines 292-306.
get_inspections(r, token) ==
    LET q == Arrive(r, "get_inspections", None)
        auth == get_current_user(token)
    IN  Receive(r, IF auth.failure # None THEN Done(q, auth.failure[1])
                   ELSE ListHandler(WithUser(q, auth), auth.user[1],
                                    "get_inspections_find"))

get_inspections_find(r) ==
    /\ req[r].pc = "get_inspections_find"
    /\ req' = [req EXCEPT ![r] =
                 Done(req[r], Ok(Responses(Visible(req[r].cur[1], inspections))))]
    /\ UNCHANGED <<users, inspections, nextId, now, tokens, started>>

\* GET /inspections/search/{license_plate}, lines 309-321.
SearchHandlerOpen(q, current_user) == [q EXCEPT !.pc = "search_find"]

SearchHandler(q, current_user) ==
    IF current_user.role = "client"
       /\ q.data.license_plate \notin Range(current_user.cars)
    THEN Done(q, Error(403, "Nu aveti permisiunea de a vedea aceasta masina"))
    ELSE [q EXCEPT !.pc = "search_find"]

search_inspections(r, token, license_plate) ==
    LET q == Arrive(r, "search_inspections", [license_plate |-> license_plate])
        auth == get_current_user(token)
    IN  Receive(r, IF auth.failure # None THEN Done(q, auth.failure[1])
                   ELSE SearchHandler(WithUser(q, auth), auth.user[1]))

search_find(r) ==
    /\ req[r].pc = "search_find"
    /\ LET license_plate == req[r].data.license_plate
           found == ToList(SelectSeq(inspections,
                               LAMBDA d : d.car_license_plate = license_plate),
                           ListCap)
       IN  req' = [req EXCEPT ![r] = Done(req[r], Ok(Responses(found)))]
    /\ UNCHANGED <<users, inspections, nextId, now, tokens, started>>

\* PUT /inspections/{inspection_id}, lines 324-340.  update_data is
\* model_dump(exclude_unset=True): a function on the fields the caller sent.
update_inspection(r, token, inspection_id, update_data) ==
    LET q == Arrive(r, "update_inspection",
                    [inspection_id |-> inspection_id, update_data |-> update_data])
        auth == get_current_user(token)
    IN  Receive(r, IF auth.failure # None THEN Done(q, auth.failure[1])
                   ELSE InspectorOnly(WithUser(q, auth), auth.user[1], "update_find",
                                      "Doar inspectorii pot actualiza inspectiile"))

update_find(r) ==
    /\ req[r].pc = "update_find"
    /\ LET inspection_id == req[r].data.inspection_id
           update_data == req[r].data.update_data
           inspection == FindOne(ById(inspections, inspection_id))
       IN  req' = [req EXCEPT ![r] =
                    IF inspection = None
                    THEN Done(req[r], Error(404, "Inspectie negasita"))
                    ELSE IF DOMAIN update_data = {}
                    THEN Done(req[r], Ok(InspectionResponse(inspection[1])))
                    ELSE [req[r] EXCEPT !.pc = "update_write",
                             !.data = [inspection_id |-> inspection_id,
                                       update_data |-> update_data,
                                       inspection |-> inspection[1]]]]
    /\ UNCHANGED <<users, inspections, nextId, now, tokens, started>>

\* The merged document of the request replaces the stored one.
update_write_whole(r) ==
    /\ req[r].pc = "update_write"
    /\ LET inspection_id == req[r].data.inspection_id
           update_data == req[r].data.update_data
           inspection == SetFields(req[r].data.inspection, update_data)
       IN  /\ inspections' = UpdateOne(inspections, inspection_id, inspection)
           /\ req' = [req EXCEPT ![r] =
                        Done(req[r], Ok(InspectionResponse(inspection)))]
    /\ UNCHANGED <<users, nextId, now, tokens, started>>

update_write(r) ==
    /\ req[r].pc = "update_write"
    /\ LET inspection_id == req[r].data.inspection_id
           update_data == req[r].data.update_data
           inspection == SetFields(req[r].data.inspection, update_data)
       IN  /\ inspections' = UpdateOne(inspections, inspection_id, update_data)
           /\ req' = [req EXCEPT ![r] =
                        Done(req[r], Ok(InspectionResponse(inspection)))]
    /\ UNCHANGED <<users, nextId, now, tokens, started>>

\* DELETE /inspections/{inspection_id}, lines 343-351.
delete_inspection(r, token, inspection_id) ==
    LET q == Arrive(r, "delete_inspection", [inspection_id |-> inspection_id])
        auth == get_current_user(token)
    IN  Receive(r, IF auth.failure # None THEN Done(q, auth.failure[1])
                   ELSE InspectorOnly(WithUser(q, auth), auth.user[1], "delete_one",
                                      "Doar inspectorii pot sterge inspectiile"))

\* delete_one(filter): the first matching document is removed.
DeleteOne(coll, id) ==
    LET i == FirstIndex(coll, id)
    IN  IF i = 0 THEN coll
        ELSE SubSeq(coll, 1, i - 1) \o SubSeq(coll, i + 1, Len(coll))

\* The answer does not depend on deleted_count.
delete_one_idempotent(r) ==
    /\ req[r].pc = "delete_one"
    /\ inspections' = DeleteOne(inspections, req[r].data.inspection_id)
    /\ req' = [req EXCEPT ![r] =
                 Done(req[r], Ok([message |-> "Inspectie stearsa cu succes"]))]
    /\ UNCHANGED <<users, nextId, now, tokens, started>>

\* The test of deleted_count is inverted.
delete_one_inverted(r) ==
    /\ req[r].pc = "delete_one"
    /\ LET inspection_id == req[r].data.inspection_id
           after == DeleteOne(inspections, inspection_id)
           deleted_count == Len(inspections) - Len(after)
       IN  /\ inspections' = after
           /\ req' = [req EXCEPT ![r] =
                        IF deleted_count # 0
                        THEN Done(req[r], Error(404, "Inspectie negasita"))
                        ELSE Done(req[r],
                                  Ok([message |-> "Inspectie stearsa cu succes"]))]
    /\ UNCHANGED <<users, nextId, now, tokens, started>>

delete_one(r) ==
    /\ req[r].pc = "delete_one"
    /\ LET inspection_id == req[r].data.inspection_id
           after == DeleteOne(inspections, inspection_id)
           deleted_count == Len(inspections) - Len(after)
       IN  /\ inspections' = after
           /\ req' = [req EXCEPT ![r] =
                        IF deleted_count = 0
                        THEN Done(req[r], Error(404, "Inspectie negasita"))
                        ELSE Done(req[r],
                                  Ok([message |-> "Inspectie stearsa cu succes"]))]
    /\ UNCHANGED <<users, nextId, now, tokens, started>>

----------------------------------------------------------------------------
(* GET /inspections/expiring/soon.  Date strings are sequences of            *)
(* characters; the characters of the model are digits, "-" and letters.      *)

\* str.split(sep)
RECURSIVE SplitFrom(_, _, _, _)
SplitFrom(s, sep, i, part) ==
    IF i > Len(s) THEN <<part>>
    ELSE IF s[i] = sep THEN <<part>> \o SplitFrom(s, sep, i + 1, <<>>)
    ELSE SplitFrom(s, sep, i + 1, Append(part, s[i]))

Split(s, sep) == SplitFrom(s, sep, 1, <<>>)

Digits == <<"0", "1", "2", "3", "4", "5", "6", "7", "8", "9">>

DigitValue(c) == (CHOOSE i \in 1..Len(Digits) : Digits[i] = c) - 1

\* int(s): the value of a non-empty string of digits, None for ValueError.
RECURSIVE Decimal(_)
Decimal(s) ==
    IF s = <<>> THEN 0
    ELSE 10 * Decimal(SubSeq(s, 1, Len(s) - 1)) + DigitValue(s[Len(s)])

int(s) ==
    IF s = <<>> \/ \E i \in 1..Len(s) : s[i] \notin Range(Digits)
    THEN None
    ELSE Some(Decimal(s))

IsLeap(y) == (y % 4 = 0) /\ (y % 100 # 0 \/ y % 400 = 0)

DaysInMonth(y, m) ==
    IF m = 2 THEN (IF IsLeap(y) THEN 29 ELSE 28)
    ELSE IF m \in {4, 6, 9, 11} THEN 30 ELSE 31

RECURSIVE DaysBeforeMonth(_, _)
DaysBeforeMonth(y, m) ==
    IF m = 1 THEN 0 ELSE DaysBeforeMonth(y, m - 1) + DaysInMonth(y, m - 1)

DaysBeforeYear(y) ==
    (y - 1) * 365 + ((y - 1) \div 4) - ((y - 1) \div 100) + ((y - 1) \div 400)

\* date.toordinal(): 1 for 01-01-0001.
Ordinal(y, m, d) == DaysBeforeYear(y) + DaysBeforeMonth(y, m) + d

\* datetime(year, month, day): a naive datetime at midnight, None for
\* ValueError.
datetime(y, m, d) ==
    IF y \in 1..9999 /\ m \in 1..12 /\ d \in 1..DaysInMonth(y, m)
    THEN Some([day |-> Ordinal(y, m, d), sec |-> 0, tzinfo |-> None])
    ELSE None

\* datetime.now(timezone.utc): an aware datetime.
utcnow == [day |-> now.day, sec |-> now.sec, tzinfo |-> Some("UTC")]

\* a - b on datetimes: a timedelta, None for the TypeError raised when one
\* operand is naive and the other aware.  timedelta.days is the floor.
Subtract(a, b) ==
    IF (a.tzinfo = None) # (b.tzinfo = None)
    THEN None
    ELSE Some([days |-> ((a.day - b.day) * SecondsPerDay + (a.sec - b.sec))
                            \div SecondsPerDay])

ExpiryWindowDays == 30

\* The body of the try block, lines 373-379: TRUE when the record is appended;
\* FALSE also when any statement of the block raises (except: continue).
IsExpiring(insp, today) ==
    LET expiry_parts == Split(insp.expiry_date, "-")
    IN  /\ Len(expiry_parts) >= 3
        /\ LET y == int(expiry_parts[3])
               m == int(expiry_parts[2])
               d == int(expiry_parts[1])
           IN  /\ y # None /\ m # None /\ d # None
               /\ LET expiry_date == datetime(y[1], m[1], d[1])
                  IN  /\ expiry_date # None
                      /\ LET delta == Subtract(expiry_date[1], today)
                         IN  /\ delta # None
                             /\ 0 <= delta[1].days
                             /\ delta[1].days <= ExpiryWindowDays

\* Lines 354-361: today is read, then the role decides the query.
get_expiring_inspections(r, token) ==
    LET q == Arrive(r, "get_expiring_inspections", [today |-> utcnow])
        auth == get_current_user(token)
    IN  Receive(r, IF auth.failure # None THEN Done(q, auth.failure[1])
                   ELSE ListHandler(WithUser(q, auth), auth.user[1], "expiring_find"))

\* Lines 362-383.
expiring_find(r) ==
    /\ req[r].pc = "expiring_find"
    /\ LET today == req[r].data.today
           found == Visible(req[r].cur[1], inspections)
           expiring == SelectSeq(found, LAMBDA insp : IsExpiring(insp, today))
       IN  req' = [req EXCEPT ![r] = Done(req[r], Ok(Responses(expiring)))]
    /\ UNCHANGED <<users, inspections, nextId, now, tokens, started>>

\* Time passes.
Tick(secs) ==
    /\ now' = [day |-> now.day + (now.sec + secs) \div SecondsPerDay,
               sec |-> (now.sec + secs) % SecondsPerDay]
    /\ UNCHANGED <<users, inspections, nextId, tokens, started, req>>

----------------------------------------------------------------------------
(* Registration under concurrent requests. *)

Epoch == [day |-> Ordinal(2025, 1, 1), sec |-> 0]

InitEmpty ==
    /\ users = <<>>
    /\ inspections = <<>>
    /\ nextId = 1
    /\ now = Epoch
    /\ tokens = {}
    /\ started = 0
    /\ req = [r \in Slots |-> Idle]

Salts == {"salt1"}

RegisterInputs ==
    [name : {"Test User"},
     phone : {"0712345678"},
     email : {"a@test.com", "b@test.com"},
     role : {"client", "inspector", "admin"},
     password : {"TestPass123!"},
     inspector_id : {None, Some(""), Some("INS001")},
     inspector_creation_password :
         {None, Some("wrong_password"), Some(INSPECTOR_CREATION_PASSWORD)}]

RegisterRequests == 2     \* requests received in one behaviour of RegisterSpec

RegisterNext ==
    \/ \E r \in Slots, user_data \in RegisterInputs :
          started < RegisterRequests /\ register_find(r, user_data)
    \/ \E r \in Slots, salt \in Salts : register_insert(r, salt)

RegisterSpec == InitEmpty /\ [][RegisterNext]_vars

\* The request in slot r arrives in this step.
Arrives(r) == req'[r].tag # req[r].tag

EmailStored(email) == \E i \in 1..Len(users) : users[i].email = email

EmailTaken == Error(400, "Email-ul este deja inregistrat")
Forbidden(msg) == Error(403, msg)

\* C1 (as claimed): no two stored users have the same email, also when
\* register requests interleave between their lookup and their insert.
C1_EmailsUnique ==
    \A i, j \in 1..Len(users) : i # j => users[i].email # users[j].email

\* C2: a register request whose email is already stored ends at once with
\* EmailTaken (400), whatever its role, password, inspector_id and creation
\* password, and stores nothing.
C2_DuplicateEmailRejected ==
    [][\A r \in Slots :
          (Arrives(r) /\ req'[r].op = "register" /\ EmailStored(req'[r].data.email))
          => (req'[r].pc = "done" /\ req'[r].resp = EmailTaken /\ users' = users)]_vars

C2_Witness ==
    \E r \in Slots :
        /\ req[r].op = "register" /\ req[r].pc = "done"
        /\ req[r].resp = EmailTaken
        /\ req[r].data.role = "admin"
        /\ Len(users) = 1

WrongCreationPassword(user_data) ==
    /\ user_data.role = "inspector"
    /\ user_data.inspector_creation_password # Some(INSPECTOR_CREATION_PASSWORD)

\* C9 (as claimed): an inspector registration with a wrong or absent creation
\* password ends with Forbidden (403) whatever its other fields and the store.
C9_AlwaysForbidden ==
    [][\A r \in Slots :
          (Arrives(r) /\ req'[r].op = "register" /\ WrongCreationPassword(req'[r].data))
          => (req'[r].pc = "done"
              /\ req'[r].resp = Forbidden("Parola de creare inspector incorecta")
              /\ users' = users)]_vars

\* C9 (amended): an inspector registration with a wrong or absent creation
\* password always ends in an error at its lookup and stores nothing: with
\* EmailTaken (400) when the email is stored, else with MissingInspectorId
\* (400) when inspector_id is absent or empty, else with Forbidden (403).
C9_WrongPasswordRejected ==
    [][\A r \in Slots :
          (Arrives(r) /\ req'[r].op = "register" /\ WrongCreationPassword(req'[r].data))
          => /\ req'[r].pc = "done"
             /\ users' = users
             /\ req'[r].resp =
                  IF EmailStored(req'[r].data.email) THEN EmailTaken
                  ELSE IF req'[r].data.inspector_id \in {None, Some("")}
                  THEN Error(400, "ID-ul de inspector este necesar")
                  ELSE Forbidden("Parola de creare inspector incorecta")]_vars

C9_Witness ==
    \E r \in Slots :
        /\ req[r].op = "register" /\ req[r].pc = "done"
        /\ req[r].resp = Forbidden("Parola de creare inspector incorecta")
        /\ req[r].data.inspector_creation_password = None
        /\ Len(users) = 1

ValidInspector(user_data) ==
    /\ user_data.role = "inspector"
    /\ user_data.inspector_creation_password = Some(INSPECTOR_CREATION_PASSWORD)
    /\ user_data.inspector_id \notin {None, Some("")}

\* The successful end of the registration in slot r: a new user with the
\* request's role and inspector_id is stored and a token for it is returned.
RegisterSucceeds(r) ==
    /\ req'[r].pc = "done"
    /\ req'[r].resp.status = 200
    /\ Len(users') = Len(users) + 1
    /\ SubSeq(users', 1, Len(users)) = users
    /\ LET u == users'[Len(users')]
           body == req'[r].resp.body[1]
       IN  /\ u.role = req[r].data.role
           /\ u.email = req[r].data.email
           /\ u.inspector_id = req[r].data.inspector_id
           /\ \A i \in 1..Len(users) : users[i].id # u.id
           /\ body.access_token.sub = Some(u.id)
           /\ body.user.id = u.id
           /\ body.user.inspector_id = req[r].data.inspector_id

\* C10 (as claimed): an inspector registration with the exact creation
\* password and a non-empty inspector_id succeeds in every store state.
C10_AlwaysSucceeds ==
    [][\A r \in Slots :
          (Arrives(r) /\ req'[r].op = "register" /\ ValidInspector(req'[r].data))
          => req'[r].pc = "register_insert"]_vars

\* C10 (amended): such a registration, when its email is not stored at its
\* lookup, passes every check, and its insert stores a new user with role
\* inspector and that inspector_id and returns a token for that user.
C10_InspectorRegistered ==
    [][\A r \in Slots :
          /\ (Arrives(r) /\ req'[r].op = "register" /\ ValidInspector(req'[r].data)
               /\ ~EmailStored(req'[r].data.email))
             => req'[r].pc = "register_insert"
          /\ (req[r].pc = "register_insert" /\ req'[r] # req[r]
               /\ ValidInspector(req[r].data))
             => RegisterSucceeds(r)]_vars

C10_Witness ==
    \E r \in Slots :
        /\ req[r].op = "register" /\ req[r].pc = "done"
        /\ req[r].resp.status = 200
        /\ ValidInspector(req[r].data)
        /\ \E i \in 1..Len(users) :
              users[i].role = "inspector" /\ users[i].inspector_id = Some("INS001")
                /\ users[i].id = req[r].resp.body[1].user.id

----------------------------------------------------------------------------
(* The store after three registrations: two clients and an inspector. *)

Registration(email, role) ==
    [name |-> "Test User", phone |-> "0712345678", email |-> email, role |-> role,
     password |-> "TestPass123!",
     inspector_id |-> IF role = "inspector" THEN Some("INS001") ELSE None,
     inspector_creation_password |->
         IF role = "inspector" THEN Some(INSPECTOR_CREATION_PASSWORD) ELSE None]

ClientA == NewUser(1, Registration("a@test.com", "client"), "salt1", Epoch)
InspectorI == NewUser(2, Registration("i@test.com", "inspector"), "salt1", Epoch)
ClientB == NewUser(3, Registration("b@test.com", "client"), "salt1", Epoch)

TokenOf(u) == create_access_token(u.id, u.created_at)

InitRegistered ==
    /\ users = <<ClientA, InspectorI, ClientB>>
    /\ inspections = <<>>
    /\ nextId = 4
    /\ now = Epoch
    /\ tokens = {TokenOf(ClientA), TokenOf(InspectorI), TokenOf(ClientB)}
    /\ started = 0
    /\ req = [r \in Slots |-> Idle]

Plates == {"B123ABC", "CJ45XYZ"}

----------------------------------------------------------------------------
(* The car lists under concurrent requests. *)

CarsRequests == 4     \* requests received in one behaviour of CarsSpec

CarsNext ==
    \/ \E r \in Slots, token \in tokens, license_plate \in Plates :
          started < CarsRequests /\ add_car(r, token, [license_plate |-> license_plate])
    \/ \E r \in Slots, token \in tokens, license_plate \in Plates :
          started < CarsRequests /\ remove_car(r, token, license_plate)
    \/ \E r \in Slots : cars_update(r)

CarsSpec == InitRegistered /\ [][CarsNext]_vars

NoDuplicates(s) == \A i, j \in 1..Len(s) : i # j => s[i] # s[j]

StoredCars(user_id) == FindOne(ById(users, user_id))[1].cars

\* C7: no stored car list holds a plate twice, also when add_car and
\* remove_car requests of one client interleave between their read of the
\* list and their write of it.
C7_NoDuplicatePlates ==
    \A i \in 1..Len(users) : NoDuplicates(users[i].cars)

\* Two add_car requests of one client for the same plate, both read before
\* either wrote, both answered 200: the plate is stored once.
C7_Witness ==
    /\ \A r \in {1, 2} :
          /\ req[r].op = "add_car" /\ req[r].pc = "done" /\ req[r].resp.status = 200
          /\ req[r].cur = Some(ClientA)
          /\ req[r].data.license_plate = "B123ABC"
    /\ StoredCars(ClientA.id) = <<"B123ABC">>

\* The write of the car list in slot r happens in this step.
CarsWritten(r) ==
    req[r].pc \in {"add_car_update", "remove_car_update"} /\ req'[r].pc = "done"

\* C8: the car list is written last-writer-wins: the write of a request
\* replaces the stored list by the list the request computed from its own
\* read, whatever was stored in between, and answers 200 with that list;
\* so (C8_Witness) an update can be lost.
C8_LastWriterWins ==
    [][\A r \in Slots :
          CarsWritten(r)
          => /\ StoredCars(req[r].cur[1].id)' = req[r].data.cars
             /\ req'[r].resp.status = 200
             /\ req'[r].resp.body[1].cars = req[r].data.cars]_vars

\* Two concurrent add_car requests of one client with two different plates
\* were both answered 200 and only one of the plates is stored.
C8_Witness ==
    /\ started = 2
    /\ \A r \in {1, 2} :
          /\ req[r].op = "add_car" /\ req[r].pc = "done" /\ req[r].resp.status = 200
          /\ req[r].cur = Some(ClientA)
    /\ req[1].data.license_plate # req[2].data.license_plate
    /\ Len(StoredCars(ClientA.id)) = 1

\* The request arriving in slot r is op, sent by a stored client.
ClientSends(r, op) ==
    /\ Arrives(r) /\ req'[r].op = op
    /\ req'[r].cur # None /\ req'[r].cur[1].role = "client"

\* The request in slot r is an answered add_car whose list is still the
\* stored one: it read L, wrote L with the plate appended, and no request
\* wrote the list since.
AddedLast(r) ==
    /\ req[r].op = "add_car" /\ req[r].pc = "done" /\ req[r].resp.status = 200
    /\ StoredCars(req[r].cur[1].id) = req[r].data.cars

\* C11: add_car by a client of a plate its stored list holds fails with 400
\* and remove_car of a plate the list lacks fails with 404, neither touching
\* the store; a remove_car(p) that follows an add_car(p) of the same client
\* computes the list L the add_car had read, elements and order, and its
\* write stores exactly that list.
C11_AddRemove ==
    [][\A r \in Slots :
          /\ ClientSends(r, "add_car")
                /\ req'[r].data.license_plate \in Range(req'[r].cur[1].cars)
             => /\ req'[r].pc = "done"
                /\ req'[r].resp = Error(400, "Masina este deja adaugata")
                /\ users' = users
          /\ ClientSends(r, "remove_car")
                /\ req'[r].data.license_plate \notin Range(req'[r].cur[1].cars)
             => /\ req'[r].pc = "done"
                /\ req'[r].resp = Error(404, "Masina negasita")
                /\ users' = users
          /\ AddedLast(r) /\ ClientSends(r, "remove_car")
                /\ req'[r].cur[1].id = req[r].cur[1].id
                /\ req'[r].data.license_plate = req[r].data.license_plate
             => /\ req'[r].pc = "remove_car_update"
                /\ req'[r].data.cars = req[r].cur[1].cars
          /\ CarsWritten(r) /\ req[r].op = "remove_car"
             => StoredCars(req[r].cur[1].id)' = req[r].data.cars]_vars

\* The list of ClientA was <<"CJ45XYZ">>; the client added B123ABC, removed
\* it, and the stored list is <<"CJ45XYZ">> again.  (Three requests were
\* received, the first of them the add_car of CJ45XYZ.)
C11_Witness ==
    /\ started = 3
    /\ req[1].op = "remove_car" /\ req[1].pc = "done" /\ req[1].resp.status = 200
    /\ req[1].cur = Some([ClientA EXCEPT !.cars = <<"CJ45XYZ", "B123ABC">>])
    /\ req[1].data.license_plate = "B123ABC"
    /\ req[2] = Idle
    /\ StoredCars(ClientA.id) = <<"CJ45XYZ">>

\* The request arriving in slot r is op, sent by a stored inspector.
InspectorSends(r, op) ==
    /\ Arrives(r) /\ req'[r].op = op
    /\ req'[r].cur # None /\ req'[r].cur[1].role = "inspector"

\* C21: add_car and remove_car of an inspector end at once with Forbidden
\* (403), whatever the plate, and no car list changes in that step; and in
\* every state the car list of every stored inspector is empty, as register
\* created it.
C21_InspectorsHaveNoCars ==
    /\ [](\A i \in 1..Len(users) :
            users[i].role = "inspector" => users[i].cars = <<>>)
    /\ [][\A r \in Slots :
            /\ InspectorSends(r, "add_car")
               => /\ req'[r].pc = "done"
                  /\ req'[r].resp = Forbidden("Doar clientii pot adauga masini")
                  /\ users' = users
            /\ InspectorSends(r, "remove_car")
               => /\ req'[r].pc = "done"
                  /\ req'[r].resp = Forbidden("Doar clientii pot sterge masini")
                  /\ users' = users]_vars

\* The inspector asked to add a car and to remove one while a client owns
\* that car: both requests were refused and the inspector has no car.
C21_Witness ==
    /\ req[1].op = "remove_car" /\ req[1].pc = "done"
    /\ req[1].cur = Some(InspectorI) /\ req[1].resp.status = 403
    /\ req[2].op = "add_car" /\ req[2].pc = "done"
    /\ req[2].cur = Some(InspectorI) /\ req[2].resp.status = 403
    /\ req[1].data.license_plate \in Range(StoredCars(ClientA.id))
    /\ StoredCars(InspectorI.id) = <<>>

----------------------------------------------------------------------------
(* Inspections: the requests of clients and inspectors on a stocked store. *)

\* The date strings of the model, as their characters.
Date_31_12_2024 == <<"3", "1", "-", "1", "2", "-", "2", "0", "2", "4">>
Date_01_01_2025 == <<"0", "1", "-", "0", "1", "-", "2", "0", "2", "5">>
Date_15_01_2025 == <<"1", "5", "-", "0", "1", "-", "2", "0", "2", "5">>
Date_31_01_2025 == <<"3", "1", "-", "0", "1", "-", "2", "0", "2", "5">>
Date_01_02_2025 == <<"0", "1", "-", "0", "2", "-", "2", "0", "2", "5">>
Date_15_03_2025 == <<"1", "5", "-", "0", "3", "-", "2", "0", "2", "5">>
NotADate == <<"n", "o", "t", "-", "a", "-", "d", "a", "t", "e">>

InspectionInput(license_plate, expiry_date) ==
    [car_license_plate |-> license_plate,
     owner_phone |-> "0712345678",
     inspection_date |-> Date_01_01_2025,
     expiry_date |-> expiry_date,
     inspector_name |-> "Test Inspector",
     inspector_phone |-> "0712345679",
     car_kilometers |-> 50000]

\* The store after the registrations of InitRegistered, up to one add_car of
\* client A and up to two create_inspection requests.
Stock ==
    <<NewInspection(4, InspectionInput("B123ABC", Date_15_03_2025), Epoch),
      NewInspection(5, InspectionInput("CJ45XYZ", Date_15_03_2025), Epoch)>>

InitStocked ==
    \E cars \in {<<>>, <<"B123ABC">>}, k \in 0..Len(Stock) :
        /\ users = <<[ClientA EXCEPT !.cars = cars], InspectorI>>
        /\ inspections = SubSeq(Stock, 1, k)
        /\ nextId = 4 + k
        /\ now = Epoch
        /\ tokens = {TokenOf(ClientA), TokenOf(InspectorI)}
        /\ started = 0
        /\ req = [r \in Slots |-> Idle]

\* Inspection ids a caller may name: those handed out so far, and one that
\* never was.
UnknownId == 0
KnownIds == {id \in 4..(nextId - 1) : TRUE} \cup {UnknownId}

NoFields == [f \in {} |-> 0]

UpdateInputs ==
    {NoFields, [car_kilometers |-> 55000], [car_license_plate |-> "CJ45XYZ"]}

Requests == 2         \* requests received in one behaviour of Spec

Next ==
    \/ \E r \in Slots, token \in tokens, license_plate \in Plates :
          started < Requests /\ add_car(r, token, [license_plate |-> license_plate])
    \/ \E r \in Slots, token \in tokens, license_plate \in Plates :
          started < Requests /\ remove_car(r, token, license_plate)
    \/ \E r \in Slots : cars_update(r)
    \/ \E r \in Slots, token \in tokens, license_plate \in Plates :
          started < Requests
          /\ create_inspection(r, token, InspectionInput(license_plate, Date_15_03_2025))
    \/ \E r \in Slots : create_insert(r)
    \/ \E r \in Slots, token \in tokens :
          started < Requests /\ get_inspections(r, token)
    \/ \E r \in Slots : get_inspections_find(r)
    \/ \E r \in Slots, token \in tokens, license_plate \in Plates :
          started < Requests /\ search_inspections(r, token, license_plate)
    \/ \E r \in Slots : search_find(r)
    \/ \E r \in Slots, token \in tokens, id \in KnownIds, update_data \in UpdateInputs :
          started < Requests /\ update_inspection(r, token, id, update_data)
    \/ \E r \in Slots : update_find(r)
    \/ \E r \in Slots : update_write(r)
    \/ \E r \in Slots, token \in tokens, id \in KnownIds :
          started < Requests /\ delete_inspection(r, token, id)
    \/ \E r \in Slots : delete_one(r)

Spec == InitStocked /\ [][Next]_vars

\* The stored document of the user the request in slot r was resolved to.
Caller(r) == FindOne(ById(users, req'[r].cur[1].id))[1]

\* The request in slot r arrives in this step with the token of a client.
ClientArrives(r) ==
    /\ Arrives(r)
    /\ req'[r].cur # None
    /\ Caller(r).role = "client"

\* C3: a client can never create, update, delete or search without
\* restriction: create, update and delete of a client end with Forbidden
\* (403) for every id, search of a client ends with Forbidden for every plate
\* that is not in the client's car list, and the inspections stay as they were.
C3_ClientForbidden ==
    [][\A r \in Slots :
          (/\ ClientArrives(r)
           /\ \/ req'[r].op \in {"create_inspection", "update_inspection",
                                  "delete_inspection"}
              \/ /\ req'[r].op = "search_inspections"
                 /\ req'[r].data.license_plate \notin Range(Caller(r).cars))
          => (/\ req'[r].pc = "done"
              /\ req'[r].resp.status = 403
              /\ req'[r].resp.body = None
              /\ inspections' = inspections)]_vars

\* A client's delete of a stored inspection was refused and the inspection is
\* still stored.
C3_Witness ==
    \E r \in Slots :
        /\ req[r].op = "delete_inspection" /\ req[r].pc = "done"
        /\ req[r].cur # None /\ req[r].cur[1].role = "client"
        /\ req[r].resp.status = 403
        /\ ById(inspections, req[r].data.inspection_id) # <<>>

\* The stored inspections whose plate is in the car list.
OwnInspections(cars) ==
    SelectSeq(inspections, LAMBDA d : d.car_license_plate \in Range(cars))

\* C4: list of a client without cars returns the empty sequence at once; list
\* of a client whose car list is as the request read it (no write of the list
\* came in between) returns exactly the stored inspections whose plate is in
\* that list; list of an inspector returns all stored inspections.
C4_ListReturnsOwn ==
    [][\A r \in Slots :
          /\ (ClientArrives(r) /\ req'[r].op = "get_inspections"
               /\ Caller(r).cars = <<>>)
             => (req'[r].pc = "done" /\ req'[r].resp = Ok(<<>>))
          /\ (req[r].pc = "get_inspections_find" /\ req'[r].pc = "done")
             => LET u == FindOne(ById(users, req[r].cur[1].id))[1]
                IN  /\ req'[r].resp.status = 200
                    /\ (u.role = "client" /\ u.cars = req[r].cur[1].cars)
                       => req'[r].resp.body[1] = Responses(OwnInspections(u.cars))
                    /\ (u.role = "inspector" /\ Len(inspections) <= ListCap)
                       => req'[r].resp.body[1] = Responses(inspections)]_vars

\* A client with one car got one of the two stored inspections.
C4_Witness ==
    \E r \in Slots :
        /\ req[r].op = "get_inspections" /\ req[r].pc = "done"
        /\ req[r].cur # None /\ req[r].cur[1].role = "client"
        /\ req[r].resp.status = 200
        /\ Len(req[r].resp.body[1]) = 1
        /\ Len(inspections) = 2

\* The document stored under id, in the store as it is and as it becomes.
Stored(id) == FindOne(ById(inspections, id))[1]
StoredNext(id) == FindOne(ById(inspections', id))[1]

IsStored(id) == ById(inspections, id) # <<>>

\* All inspections but the one with this id stay as they are, in place.
OthersUnchanged(id) ==
    /\ Len(inspections') = Len(inspections)
    /\ \A j \in 1..Len(inspections) :
          inspections[j].id # id => inspections'[j] = inspections[j]

\* C12: the write of an update sets, on the stored inspection with the id,
\* exactly the fields the payload holds and leaves its other fields (id and
\* created_at among them) and all other inspections as they were; an update
\* with an empty payload is answered with the stored record and writes
\* nothing; a list read by an inspector returns the stored records, so a
\* later read shows the new values and the old ones.
C12_UpdateFrame ==
    [][\A r \in Slots :
          /\ (req[r].pc = "update_write" /\ req'[r].pc = "done")
             => LET id == req[r].data.inspection_id
                    update_data == req[r].data.update_data
                IN  /\ req'[r].resp.status = 200
                    /\ OthersUnchanged(id)
                    /\ IsStored(id)
                       => /\ DOMAIN StoredNext(id) = DOMAIN Stored(id)
                          /\ \A f \in DOMAIN Stored(id) :
                                StoredNext(id)[f] =
                                   IF f \in DOMAIN update_data
                                   THEN update_data[f] ELSE Stored(id)[f]
          /\ (req[r].pc = "update_find" /\ req'[r].pc = "done"
               /\ req[r].data.update_data = NoFields)
             => /\ inspections' = inspections
                /\ IsStored(req[r].data.inspection_id)
                   => req'[r].resp =
                         Ok(InspectionResponse(Stored(req[r].data.inspection_id)))
          /\ (req[r].pc = "get_inspections_find" /\ req'[r].pc = "done"
               /\ req[r].cur[1].role = "inspector")
             => req'[r].resp = Ok(Responses(inspections))]_vars

\* The store held inspections 4 and 5; an inspector updated the odometer of
\* inspection 4 and then listed the inspections: the list shows inspection 4
\* with the new odometer reading and its other fields as stocked, and
\* inspection 5 as stocked.
C12_Witness ==
    /\ started = 2
    /\ req[1].op = "get_inspections" /\ req[1].pc = "done"
    /\ req[1].cur = Some(InspectorI)
    /\ req[1].resp =
          Ok(<<InspectionResponse([Stock[1] EXCEPT !.car_kilometers = 55000]),
               InspectionResponse(Stock[2])>>)

\* The stored inspections of a plate.
WithPlate(license_plate) ==
    SelectSeq(inspections, LAMBDA d : d.car_license_plate = license_plate)

\* The request in slot r is an answered remove_car whose list is still the
\* stored one.
RemovedLast(r) ==
    /\ req[r].op = "remove_car" /\ req[r].pc = "done" /\ req[r].resp.status = 200
    /\ StoredCars(req[r].cur[1].id) = req[r].data.cars

\* C16: a search of a client ends with Forbidden (403) exactly when the plate
\* is not in the stored car list of the client as the request arrives, so
\* also right after the client removed the plate; every search that is let
\* through, of a client or of an inspector, returns exactly the inspections
\* stored with that plate as the store is read, so a record whose plate an
\* update changed is returned under the new plate only.
C16_SearchByPlate ==
    [][\A r \in Slots :
          /\ (ClientArrives(r) /\ req'[r].op = "search_inspections")
             => IF req'[r].data.license_plate \in Range(Caller(r).cars)
                THEN req'[r].pc = "search_find"
                ELSE /\ req'[r].pc = "done"
                     /\ req'[r].resp =
                           Forbidden("Nu aveti permisiunea de a vedea aceasta masina")
          /\ (Arrives(r) /\ req'[r].op = "search_inspections"
               /\ req'[r].cur # None /\ req'[r].cur[1].role = "inspector")
             => req'[r].pc = "search_find"
          /\ (RemovedLast(r) /\ ClientArrives(r)
               /\ req'[r].op = "search_inspections"
               /\ req'[r].cur[1].id = req[r].cur[1].id
               /\ req'[r].data.license_plate = req[r].data.license_plate)
             => req'[r].resp.status = 403
          /\ (req[r].pc = "search_find" /\ req'[r].pc = "done")
             => /\ req'[r].resp =
                      Ok(Responses(WithPlate(req[r].data.license_plate)))
                /\ \A i \in 1..Len(inspections) :
                      (\E j \in 1..Len(req'[r].resp.body[1]) :
                          req'[r].resp.body[1][j].id = inspections[i].id)
                      <=> inspections[i].car_license_plate
                             = req[r].data.license_plate]_vars

\* Inspection 4 was stocked with plate B123ABC; an inspector changed its plate
\* to CJ45XYZ and the search of CJ45XYZ returned inspection 4 (and the
\* inspection 5 stocked with that plate).
C16_Witness ==
    /\ started = 2
    /\ Stock[1].car_license_plate = "B123ABC"
    /\ req[1].op = "search_inspections" /\ req[1].pc = "done"
    /\ req[1].data.license_plate = "CJ45XYZ"
    /\ req[1].resp =
          Ok(<<InspectionResponse([Stock[1] EXCEPT !.car_license_plate = "CJ45XYZ"]),
               InspectionResponse(Stock[2])>>)

\* The ids given to inspections so far.
IssuedIds == Stock[1].id..(nextId - 1)

\* The request in slot r is answered in this step by the store call at pc.
Answered(r, pc) == req[r].pc = pc /\ req'[r].pc = "done"

NotFound == Error(404, "Inspectie negasita")

\* The seven fields of InspectionCreate.
InputFields ==
    {"car_license_plate", "owner_phone", "inspection_date", "expiry_date",
     "inspector_name", "inspector_phone", "car_kilometers"}

\* The record the request in slot r was answered with is what a search of
\* its plate finds in the store.
FoundBySearch(r) ==
    LET record == req[r].resp.body[1]
        found == Responses(WithPlate(record.car_license_plate))
    IN  \E j \in 1..Len(found) : found[j] = record

\* C18: the insert of a create answers 200 with a record that has an id no
\* stored inspection has and none had before, the instant of the insert as
\* creation timestamp and the seven input fields as supplied, and a search
\* of the plate on the store right after the insert finds that record, equal
\* in all fields (search returns the stored records of the plate).
C18_CreateRoundTrip ==
    [][\A r \in Slots :
          /\ Answered(r, "create_insert")
             => /\ req'[r].resp.status = 200
                /\ LET record == req'[r].resp.body[1]
                   IN  /\ \A i \in 1..Len(inspections) :
                             inspections[i].id # record.id
                       /\ record.id \notin IssuedIds
                       /\ record.created_at = now
                       /\ \A f \in InputFields : record[f] = req[r].data[f]
                       /\ DOMAIN record = InputFields \cup {"id", "created_at"}
                /\ FoundBySearch(r)'
          /\ Answered(r, "search_find")
             => req'[r].resp = Ok(Responses(WithPlate(req[r].data.license_plate)))]_vars

\* On the store holding inspections 4 and 5 an inspection of B123ABC was
\* created, with id 6, and the search of B123ABC that followed returned
\* inspection 4 and the new record, with the fields supplied.
C18_Witness ==
    /\ started = 2
    /\ req[1].op = "search_inspections" /\ req[1].pc = "done"
    /\ req[1].resp =
          Ok(<<InspectionResponse(Stock[1]),
               InspectionResponse(
                   NewInspection(6, InspectionInput("B123ABC", Date_15_03_2025), Epoch))>>)

----------------------------------------------------------------------------
(* The expiry query as time passes. *)

ExpiryDates ==
    {Date_31_12_2024, Date_01_01_2025, Date_15_01_2025, Date_31_01_2025,
     Date_01_02_2025, Date_15_03_2025, NotADate}

\* Client A owns "B123ABC"; no inspection is stored yet.
InitExpiring ==
    /\ users = <<[ClientA EXCEPT !.cars = <<"B123ABC">>], InspectorI>>
    /\ inspections = <<>>
    /\ nextId = 4
    /\ now = Epoch
    /\ tokens = {TokenOf(ClientA), TokenOf(InspectorI)}
    /\ started = 0
    /\ req = [r \in Slots |-> Idle]

ExpiringRequests == 3     \* requests received in one behaviour of ExpiringSpec
HalfDays == 2             \* half days that pass in one behaviour of ExpiringSpec

HalfDay == SecondsPerDay \div 2

Elapsed == (now.day - Epoch.day) * SecondsPerDay + (now.sec - Epoch.sec)

ExpiringNext ==
    \/ \E r \in Slots, expiry_date \in ExpiryDates :
          started < ExpiringRequests
          /\ create_inspection(r, TokenOf(InspectorI),
                               InspectionInput("B123ABC", expiry_date))
    \/ \E r \in Slots : create_insert(r)
    \/ \E r \in Slots, token \in tokens :
          started < ExpiringRequests /\ get_expiring_inspections(r, token)
    \/ \E r \in Slots : expiring_find(r)
    \/ Elapsed < HalfDays * HalfDay /\ Tick(HalfDay)

ExpiringSpec == InitExpiring /\ [][ExpiringNext]_vars

\* The expiry query in slot r is answered from the store in this step.
ExpiringAnswered(r) == req[r].pc = "expiring_find" /\ req'[r].pc = "done"

\* The documents the caller of the request in slot r may see.
VisibleTo(r) ==
    LET u == req[r].cur[1]
    IN  IF u.role = "client" THEN OwnInspections(u.cars) ELSE inspections

Returned(r, d) == InspectionResponse(d) \in Range(req'[r].resp.body[1])

\* C5 (as claimed): with the current instant on 01-01-2025, expiring_soon
\* returns a visible record that expires on "15-01-2025" and returns neither
\* one that expires on "15-03-2025" nor one whose expiry is "not-a-date", and
\* answers without error.
C5_ExpiringExamples ==
    [][\A r \in Slots :
          (ExpiringAnswered(r) /\ req[r].data.today.day = Ordinal(2025, 1, 1))
          => /\ req'[r].resp.status = 200
             /\ \A i \in 1..Len(VisibleTo(r)) :
                   LET d == VisibleTo(r)[i]
                   IN  /\ d.expiry_date = Date_15_01_2025 => Returned(r, d)
                       /\ d.expiry_date = Date_15_03_2025 => ~Returned(r, d)
                       /\ d.expiry_date = NotADate => ~Returned(r, d)]_vars

\* The calendar day a well-formed expiry string names.
ExpiryDay(d) ==
    LET parts == Split(d.expiry_date, "-")
    IN  Ordinal(int(parts[3])[1], int(parts[2])[1], int(parts[1])[1])

\* C6 (as claimed): expiring_soon returns a visible record with a well-formed
\* expiry date d exactly when today <= d <= today + 30 days, in calendar days,
\* both ends included.
C6_InclusiveWindow ==
    [][\A r \in Slots :
          ExpiringAnswered(r)
          => \A i \in 1..Len(VisibleTo(r)) :
                LET d == VisibleTo(r)[i]
                    today == req[r].data.today.day
                IN  d.expiry_date # NotADate
                    => (Returned(r, d)
                        <=> (today <= ExpiryDay(d)
                             /\ ExpiryDay(d) <= today + ExpiryWindowDays))]_vars

----------------------------------------------------------------------------
(* The whole public surface as time passes: registration, login and every  *)
(* authenticated route, with tokens the service issued and with tokens it   *)
(* did not.                                                                  *)

InitSurface ==
    /\ users = <<[ClientA EXCEPT !.cars = <<"B123ABC">>], InspectorI>>
    /\ inspections = SubSeq(Stock, 1, 1)
    /\ nextId = 5
    /\ now = Epoch
    /\ tokens = {TokenOf(ClientA), TokenOf(InspectorI)}
    /\ started = 0
    /\ req = [r \in Slots |-> Idle]

\* Tokens the service never issued: one signed with another key, and one
\* without a subject.
BadSignature == [TokenOf(InspectorI) EXCEPT !.key = "another-key"]
NoSubject == [TokenOf(InspectorI) EXCEPT !.sub = None]
Presented == tokens \cup {BadSignature, NoSubject}

TokenLifetime == ACCESS_TOKEN_EXPIRE_DAYS * SecondsPerDay

\* The instants of a behaviour of SurfaceSpec, in seconds after Epoch: one
\* second before and after the expiry of the tokens issued at Epoch, and 31
\* days after Epoch.  (A token issued at a later instant is valid at all of
\* them.)
Instants ==
    {0, TokenLifetime - 1, TokenLifetime + 1, TokenLifetime + SecondsPerDay}

SurfaceRequests == 2    \* requests received in one behaviour of SurfaceSpec

Passwords == {"TestPass123!", "OtherPass456!"}

ClientLogin == [email |-> "a@test.com", password |-> "TestPass123!"]

SurfaceNext ==
    \/ \E r \in Slots :
          started < SurfaceRequests
          /\ register_find(r, Registration("b@test.com", "client"))
    \/ \E r \in Slots, salt \in Salts : register_insert(r, salt)
    \/ \E r \in Slots, password \in Passwords :
          started < SurfaceRequests
          /\ login(r, [ClientLogin EXCEPT !.password = password])
    \/ \E r \in Slots, token \in Presented :
          started < SurfaceRequests /\ get_me(r, token)
    \/ \E r \in Slots, token \in Presented :
          started < SurfaceRequests /\ add_car(r, token, [license_plate |-> "CJ45XYZ"])
    \/ \E r \in Slots, token \in Presented :
          started < SurfaceRequests /\ remove_car(r, token, "B123ABC")
    \/ \E r \in Slots : cars_update(r)
    \/ \E r \in Slots, token \in Presented :
          started < SurfaceRequests
          /\ create_inspection(r, token, InspectionInput("B123ABC", Date_15_03_2025))
    \/ \E r \in Slots : create_insert(r)
    \/ \E r \in Slots, token \in Presented :
          started < SurfaceRequests /\ get_inspections(r, token)
    \/ \E r \in Slots : get_inspections_find(r)
    \/ \E r \in Slots, token \in Presented :
          started < SurfaceRequests /\ search_inspections(r, token, "B123ABC")
    \/ \E r \in Slots : search_find(r)
    \/ \E r \in Slots, token \in Presented :
          started < SurfaceRequests
          /\ update_inspection(r, token, 4, [car_kilometers |-> 55000])
    \/ \E r \in Slots : update_find(r)
    \/ \E r \in Slots : update_write(r)
    \/ \E r \in Slots, token \in Presented :
          started < SurfaceRequests /\ delete_inspection(r, token, 4)
    \/ \E r \in Slots : delete_one(r)
    \/ \E r \in Slots, token \in Presented :
          started < SurfaceRequests /\ get_expiring_inspections(r, token)
    \/ \E r \in Slots : expiring_find(r)
    \/ \E t \in Instants : Elapsed < t /\ Tick(t - Elapsed)

SurfaceSpec == InitSurface /\ [][SurfaceNext]_vars

\* This step is the arrival, in slot r, of a request of one of the
\* authenticated routes carrying the token.
Presents(r, token) ==
    \/ get_me(r, token)
    \/ add_car(r, token, [license_plate |-> "CJ45XYZ"])
    \/ remove_car(r, token, "B123ABC")
    \/ create_inspection(r, token, InspectionInput("B123ABC", Date_15_03_2025))
    \/ get_inspections(r, token)
    \/ search_inspections(r, token, "B123ABC")
    \/ update_inspection(r, token, 4, [car_kilometers |-> 55000])
    \/ delete_inspection(r, token, 4)
    \/ get_expiring_inspections(r, token)

\* The request in slot r ends at its arrival with 401 and this message: it is
\* resolved to no user, its handler does not run and nothing is stored.
Rejected(r, msg) ==
    /\ req'[r].pc = "done"
    /\ req'[r].resp = Error(401, msg)
    /\ req'[r].cur = None
    /\ users' = users /\ inspections' = inspections /\ nextId' = nextId

\* C13: a token the service issued expires 30 days after its issue; on every
\* authenticated route it resolves to its user at every instant before its
\* expiry and is rejected with 401 "Token expirat" at every instant after
\* it, 31 days after the issue for one; a token with a bad signature or
\* without subject is rejected with 401 "Token invalid"; a rejected request
\* ends at once and stores nothing.
C13_TokenLifetime ==
    [][\A r \in Slots :
          /\ (Arrives(r) /\ req'[r].op = "login" /\ req'[r].resp.status = 200)
             => req'[r].resp.body[1].access_token.exp
                   = AddDays(now, ACCESS_TOKEN_EXPIRE_DAYS)
          /\ \A token \in Presented :
                (Arrives(r) /\ Presents(r, token))
                => /\ (token \in tokens /\ Before(now, token.exp))
                      => /\ req'[r].resp.status # 401
                         /\ req'[r].cur = FindOne(ById(users, token.sub[1]))
                         /\ req'[r].cur # None
                   /\ (token \in tokens /\ Before(token.exp, now))
                      => Rejected(r, "Token expirat")
                   /\ (token = BadSignature
                          \/ (token = NoSubject /\ Before(now, token.exp)))
                      => Rejected(r, "Token invalid")]_vars

\* 31 days after its issue, the token of the inspector was presented to
\* delete a stored inspection: the request was rejected as expired and the
\* inspection is still stored.
C13_Witness ==
    /\ Elapsed = 31 * SecondsPerDay
    /\ \E r \in Slots :
          /\ req[r].op = "delete_inspection" /\ req[r].pc = "done"
          /\ req[r].resp = Error(401, "Token expirat")
    /\ inspections = SubSeq(Stock, 1, 1)
    /\ \A token \in tokens : token.exp = AddDays(Epoch, ACCESS_TOKEN_EXPIRE_DAYS)

\* C17: the store call of delete answers 404 and removes nothing when no
\* inspection with the id is stored, and otherwise removes that inspection
\* and no other; an id that was issued and is no longer stored is never
\* stored again, every list, search and expiring_soon result holds stored
\* inspections only, and the store calls of update and delete answer 404 for
\* an id that is not stored.
C17_DeletePermanent ==
    [][/\ \A id \in IssuedIds : ~IsStored(id) => ~IsStored(id)'
       /\ \A r \in Slots :
          /\ Answered(r, "delete_one")
             => LET id == req[r].data.inspection_id
                IN  IF IsStored(id)
                    THEN /\ req'[r].resp =
                               Ok([message |-> "Inspectie stearsa cu succes"])
                         /\ inspections' =
                               SelectSeq(inspections, LAMBDA d : d.id # id)
                         /\ Len(inspections') = Len(inspections) - 1
                    ELSE /\ req'[r].resp = NotFound
                         /\ inspections' = inspections
          /\ (req[r].pc = "update_find" /\ req'[r].pc # "update_find"
               /\ ~IsStored(req[r].data.inspection_id))
             => /\ req'[r].pc = "done"
                /\ req'[r].resp = NotFound
                /\ inspections' = inspections
          /\ (\/ Answered(r, "get_inspections_find")
              \/ Answered(r, "search_find")
              \/ Answered(r, "expiring_find"))
             => \A j \in 1..Len(req'[r].resp.body[1]) :
                   IsStored(req'[r].resp.body[1][j].id)]_vars

\* Inspection 4 was deleted, and the update of inspection 4 that followed
\* was answered 404.
C17_Witness ==
    /\ started = 2
    /\ ~IsStored(Stock[1].id)
    /\ req[1].op = "update_inspection" /\ req[1].pc = "done"
    /\ req[1].data.inspection_id = Stock[1].id
    /\ req[1].resp = NotFound
    /\ req[2] = Idle

\* The fields of a user that no route writes after registration.
FixedUserFields ==
    {"id", "name", "phone", "email", "role", "password", "inspector_id",
     "created_at"}

\* C19: every step keeps every stored user, in place, with its id, name,
\* phone, email, role, password hash, inspector_id and creation timestamp;
\* a car list changes only in the write step of an add_car or remove_car
\* request that was resolved to that user.
C19_UserFrame ==
    [][/\ Len(users') >= Len(users)
       /\ \A i \in 1..Len(users) :
             /\ DOMAIN users'[i] = DOMAIN users[i]
             /\ \A f \in FixedUserFields : users'[i][f] = users[i][f]
             /\ users'[i].cars # users[i].cars
                => \E r \in Slots :
                      /\ CarsWritten(r)
                      /\ req[r].op \in {"add_car", "remove_car"}
                      /\ req[r].cur[1].id = users[i].id]_vars

\* A client registered and added a car: two requests were served since the
\* store held ClientA and InspectorI, who are stored as they were, and the
\* new user is stored as registered but for the car.
C19_Witness ==
    /\ Len(users) = 3
    /\ users[1] = [ClientA EXCEPT !.cars = <<"B123ABC">>]
    /\ users[2] = InspectorI
    /\ users[3] = [NewUser(5, Registration("b@test.com", "client"), "salt1", Epoch)
                      EXCEPT !.cars = <<"CJ45XYZ">>]

\* The request in slot r gets its response in this step.
Ends(r) ==
    req'[r].pc = "done" /\ (Arrives(r) \/ req[r].pc \notin {"idle", "done"})

ErrorStatuses == {400, 401, 403, 404}

\* C22: a request writes nothing to users and inspections in the step it
\* arrives in, and nothing in the step it is answered in with 400, 401, 403
\* or 404; a request answered with an error is answered in its first or in
\* its second step, so it leaves both collections as they were.
C22_ErrorsWriteNothing ==
    [][\A r \in Slots :
          /\ Arrives(r) => (users' = users /\ inspections' = inspections)
          /\ (Ends(r) /\ req'[r].resp.status \in ErrorStatuses)
             => /\ users' = users /\ inspections' = inspections
                /\ req'[r].resp.body = None
                /\ req[r].pc \in {"idle", "done", "update_find", "delete_one"}]_vars

\* ClientA, who owns B123ABC, added CJ45XYZ and then asked to add it again:
\* the second request was answered 400 and the stored list is the one the
\* first request wrote.
C22_Witness ==
    /\ started = 2
    /\ req[1].op = "add_car" /\ req[1].pc = "done"
    /\ req[1].resp = Error(400, "Masina este deja adaugata")
    /\ req[2] = Idle
    /\ users = <<[ClientA EXCEPT !.cars = <<"B123ABC", "CJ45XYZ">>], InspectorI>>
    /\ inspections = SubSeq(Stock, 1, 1)

----------------------------------------------------------------------------
(* Accounts: registration, login and the routes of a registered client, on  *)
(* a store that starts empty.                                                *)

Emails == {"a@test.com", "b@test.com"}

AccountRequests == 3  \* requests received in one behaviour of AccountSpec

\* The instants of a behaviour of AccountSpec, in seconds after Epoch: within
\* and beyond the lifetime of a token issued at Epoch.
AccountInstants == {0, TokenLifetime - 1, TokenLifetime + 1}

AccountNext ==
    \/ \E r \in Slots, email \in Emails, password \in Passwords :
          started < AccountRequests
          /\ register_find(r, [Registration(email, "client")
                                  EXCEPT !.password = password])
    \/ \E r \in Slots, salt \in Salts : register_insert(r, salt)
    \/ \E r \in Slots, email \in Emails, password \in Passwords :
          started < AccountRequests
          /\ login(r, [email |-> email, password |-> password])
    \/ \E r \in Slots, token \in tokens :
          started < AccountRequests /\ get_me(r, token)
    \/ \E r \in Slots, token \in tokens :
          started < AccountRequests /\ add_car(r, token, [license_plate |-> "B123ABC"])
    \/ \E r \in Slots : cars_update(r)
    \/ \E t \in AccountInstants : Elapsed < t /\ Tick(t - Elapsed)

AccountSpec == InitEmpty /\ [][AccountNext]_vars

\* The request in slot r is a registration answered with a token and a user.
Registered(r) ==
    req[r].op = "register" /\ req[r].pc = "done" /\ req[r].resp.status = 200

\* C14 (as claimed): while the token a registration returned has not expired,
\* it resolves to the user that registration created, whatever requests were
\* served since; and a login with the email and the password of a stored
\* user, that is of a successful registration, is answered 200 with the id of
\* that user.
C14_RegisteredUserSignsIn ==
    /\ [](\A r \in Slots :
            Registered(r)
            => LET body == req[r].resp.body[1]
                   auth == get_current_user(body.access_token)
               IN  Before(now, body.access_token.exp)
                   => /\ auth.failure = None
                      /\ auth.user[1].id = body.user.id
                      /\ auth.user[1].email = req[r].data.email)
    /\ [][\A r \in Slots :
            (Arrives(r) /\ req'[r].op = "login")
            => \A i \in 1..Len(users) :
                  (/\ users[i].email = req'[r].data.email
                   /\ verify_password(req'[r].data.password, users[i].password))
                  => /\ req'[r].resp.status = 200
                     /\ req'[r].resp.body[1].user.id = users[i].id]_vars

\* The failure of login.
InvalidCredentials == Error(401, "Email sau parola incorecta")

\* C15: a login with an email that is not stored and a login with a stored
\* email and a password that does not verify end with the same response, 401
\* with one message and no body, and neither writes anything: no user, no
\* inspection, no token.
C15_SameLoginFailure ==
    [][\A r \in Slots :
          (Arrives(r) /\ req'[r].op = "login")
          => LET user == FindOne(ByEmail(users, req'[r].data.email))
             IN  (user = None
                    \/ ~verify_password(req'[r].data.password, user[1].password))
                 => /\ req'[r].pc = "done"
                    /\ req'[r].resp = InvalidCredentials
                    /\ users' = users /\ inspections' = inspections
                    /\ tokens' = tokens /\ nextId' = nextId]_vars

\* Two logins failed, one with the stored email and another password, one
\* with an email that is not stored: the responses are the same.
C15_Witness ==
    /\ req[1].op = "login" /\ req[1].pc = "done"
    /\ EmailStored(req[1].data.email)
    /\ req[2].op = "login" /\ req[2].pc = "done"
    /\ ~EmailStored(req[2].data.email)
    /\ req[1].resp = InvalidCredentials
    /\ req[2].resp = req[1].resp

----------------------------------------------------------------------------
(* The odometer reading: create and update with the integers a caller may   *)
(* send.                                                                     *)

Kilometers == {-1, 0, 50000}

OdometerRequests == 2     \* requests received in one behaviour of OdometerSpec

OdometerNext ==
    \/ \E r \in Slots, token \in tokens, car_kilometers \in Kilometers :
          started < OdometerRequests
          /\ create_inspection(r, token,
                 [InspectionInput("B123ABC", Date_15_03_2025)
                     EXCEPT !.car_kilometers = car_kilometers])
    \/ \E r \in Slots : create_insert(r)
    \/ \E r \in Slots, token \in tokens, id \in KnownIds,
          car_kilometers \in Kilometers :
          started < OdometerRequests
          /\ update_inspection(r, token, id, [car_kilometers |-> car_kilometers])
    \/ \E r \in Slots : update_find(r)
    \/ \E r \in Slots : update_write(r)

OdometerSpec == InitStocked /\ [][OdometerNext]_vars

\* C20 (as claimed): every stored inspection has a non-negative odometer
\* reading, whatever integers the create and update requests carry.
C20_NonNegativeKilometers ==
    \A i \in 1..Len(inspections) : inspections[i].car_kilometers >= 0

----------------------------------------------------------------------------
(* Updates and deletes of one inspection in flight together (under Spec).   *)

\* C23 (as claimed): when an update is answered 200, an inspection with its
\* id is stored as the response is given and its stored fields are those of
\* the record in the response, also when updates and deletes of the same id
\* by other requests came between the find of the update and its write.
C23_UpdateAnswersStored ==
    [][\A r \in Slots :
          (req'[r].op = "update_inspection" /\ Ends(r)
           /\ req'[r].resp.status = 200)
          => LET id == req'[r].data.inspection_id
             IN  /\ ById(inspections', id) # <<>>
                 /\ req'[r].resp.body[1] = InspectionResponse(StoredNext(id))]_vars

\* The request in slot r is a delete of the inspection with this id that an
\* inspector sent, waiting for its store call or answered.
DeleteOf(r, id, pcs) ==
    /\ req[r].op = "delete_inspection" /\ req[r].pc \in pcs
    /\ req[r].data.inspection_id = id
    /\ req[r].cur # None /\ req[r].cur[1].role = "inspector"

\* C24: of two deletes of a stored inspection that are in flight together,
\* the one whose store call comes first is answered 200 and removes the
\* inspection, and the one whose store call comes after an answered
\* successful delete of the id is answered 404, the inspection staying
\* absent; in no state two deletes of one id are both answered 200.
C24_OneDeleteWins ==
    /\ [](\A r1, r2 \in Slots, id \in IssuedIds :
            (r1 # r2 /\ DeleteOf(r1, id, {"done"}) /\ DeleteOf(r2, id, {"done"}))
            => ~(req[r1].resp.status = 200 /\ req[r2].resp.status = 200))
    /\ [][\A r1, r2 \in Slots, id \in IssuedIds :
            (r1 # r2 /\ DeleteOf(r1, id, {"delete_one"}) /\ Answered(r1, "delete_one"))
            => /\ (DeleteOf(r2, id, {"delete_one"}) /\ IsStored(id))
                  => /\ req'[r1].resp.status = 200
                     /\ ~IsStored(id)'
                     /\ req'[r2] = req[r2]
               /\ (DeleteOf(r2, id, {"done"}) /\ req[r2].resp.status = 200)
                  => /\ req'[r1].resp = NotFound
                     /\ ~IsStored(id)']_vars

\* Two deletes of the stored inspection 4 were in flight together: one was
\* answered 200, the other 404, and inspection 4 is not stored.
C24_Witness ==
    /\ started = 2
    /\ DeleteOf(1, Stock[1].id, {"done"}) /\ DeleteOf(2, Stock[1].id, {"done"})
    /\ {req[1].resp.status, req[2].resp.status} = {200, 404}
    /\ ~IsStored(Stock[1].id)

----------------------------------------------------------------------------
(* Two clients and the plates of each other.                                 *)

\* Client A owns B123ABC; client B, with another phone than the one the
\* stocked inspections name as the owner's, owns nothing.
ClientOther == [ClientB EXCEPT !.phone = "0799999999"]

InitOwnership ==
    /\ users = <<[ClientA EXCEPT !.cars = <<"B123ABC">>], ClientOther>>
    /\ inspections = Stock
    /\ nextId = 6
    /\ now = Epoch
    /\ tokens = {TokenOf(ClientA), TokenOf(ClientOther)}
    /\ started = 0
    /\ req = [r \in Slots |-> Idle]

OwnershipRequests == 3    \* requests received in one behaviour of OwnershipSpec

OwnershipNext ==
    \/ \E r \in Slots, token \in tokens, license_plate \in Plates :
          started < OwnershipRequests
          /\ add_car(r, token, [license_plate |-> license_plate])
    \/ \E r \in Slots : cars_update(r)
    \/ \E r \in Slots, token \in tokens :
          started < OwnershipRequests /\ get_inspections(r, token)
    \/ \E r \in Slots : get_inspections_find(r)
    \/ \E r \in Slots, token \in tokens, license_plate \in Plates :
          started < OwnershipRequests /\ search_inspections(r, token, license_plate)
    \/ \E r \in Slots : search_find(r)

OwnershipSpec == InitOwnership /\ [][OwnershipNext]_vars

\* The record is in the list the request in slot r is answered with.
Answers(r, d) ==
    \E j \in 1..Len(req'[r].resp.body[1]) :
        req'[r].resp.body[1][j] = InspectionResponse(d)

\* C25: add_car of a client with a plate that is not in the client's own
\* stored list is accepted and its write answered 200 with the plate in the
\* stored list, whoever else lists the plate and whatever owner phone its
\* inspections name; and a list or a search of a client on a plate of its
\* stored list returns every stored inspection of that plate.
C25_SelfAssertedOwnership ==
    [][\A r \in Slots :
          /\ (ClientSends(r, "add_car")
               /\ req'[r].data.license_plate \notin Range(Caller(r).cars))
             => req'[r].pc = "add_car_update"
          /\ (CarsWritten(r) /\ req[r].op = "add_car")
             => /\ req'[r].resp.status = 200
                /\ req[r].data.license_plate
                      \in Range(StoredCars(req[r].cur[1].id)')
          /\ (Answered(r, "get_inspections_find")
               /\ StoredCars(req[r].cur[1].id) = req[r].cur[1].cars)
             => \A i \in 1..Len(inspections) :
                   inspections[i].car_license_plate \in Range(req[r].cur[1].cars)
                   => Answers(r, inspections[i])
          /\ (ClientSends(r, "search_inspections")
               /\ req'[r].data.license_plate \in Range(Caller(r).cars))
             => req'[r].pc = "search_find"
          /\ Answered(r, "search_find")
             => \A i \in 1..Len(inspections) :
                   inspections[i].car_license_plate = req[r].data.license_plate
                   => Answers(r, inspections[i])]_vars

\* Client B added B123ABC, a plate of client A whose inspection names
\* another phone than B's, and B's list returned that inspection.
C25_Witness ==
    /\ "B123ABC" \in Range(StoredCars(ClientA.id))
    /\ Stock[1].owner_phone # ClientOther.phone
    /\ \E r \in Slots :
          /\ req[r].op = "get_inspections" /\ req[r].pc = "done"
          /\ req[r].cur = Some([ClientOther EXCEPT !.cars = <<"B123ABC">>])
          /\ req[r].resp = Ok(<<InspectionResponse(Stock[1])>>)

====
